---------------------------- MODULE Spec2Model ----------------------------
(***************************************************************************)
(* Model of interceptor.go: the capture loop of the DNS query interceptor. *)
(* A packet is pulled from the capture source, endpoint metadata and the   *)
(* query / response views are derived from it, the emission decision is    *)
(* taken and the chosen record is handed to every registered exporter.     *)
(***************************************************************************)
EXTENDS Integers, Sequences, FiniteSets

(***************************************************************************)
(* Bounds of the model.                                                    *)
(***************************************************************************)
\* packets pulled in a run of the pipeline specification (Spec)
MaxPackets == 6
\* packets pulled in a run of the per-frame specification (SpecFrames)
MaxFrames == 2

(***************************************************************************)
(* Program constants.                                                      *)
(***************************************************************************)
\* is_valid_query := c.DstPort == 53, is_valid_response := c.SrcPort == 53
DNSPort == 53
\* if errCounter > 5 { os.Exit(1) }
MaxErrors == 5
\* errCounter uint16
UInt16 == 65536
\* net.IPv6len, net.IPv4len
IPv6len == 16
IPv4len == 4
\* the prefix length of "64:ff9b::/96"
NAT64Ones == 96

\* a nil pointer, a nil interface value, an absent layer
Nil == [nil |-> TRUE]
\* a nil net.IP (a slice of length 0)
NilIP == <<>>

(***************************************************************************)
(* net.IP values: sequences of bytes.  V6 spells an address by its eight   *)
(* 16-bit groups.                                                          *)
(***************************************************************************)
V6(g) ==
    << g[1] \div 256, g[1] % 256, g[2] \div 256, g[2] % 256,
       g[3] \div 256, g[3] % 256, g[4] \div 256, g[4] % 256,
       g[5] \div 256, g[5] % 256, g[6] \div 256, g[6] % 256,
       g[7] \div 256, g[7] % 256, g[8] \div 256, g[8] % 256 >>

\* 64:ff9b::  (= 64:ff9b::0.0.0.0, the lowest address of the NAT64 prefix)
IP_NAT64_Low == V6(<<100, 65435, 0, 0, 0, 0, 0, 0>>)
\* 64:ff9b::c000:201  (192.0.2.1 synthesized)
IP_NAT64_Synth == V6(<<100, 65435, 0, 0, 0, 0, 49152, 513>>)
\* 64:ff9b::ffff:ffff  (the highest address of the NAT64 prefix)
IP_NAT64_High == V6(<<100, 65435, 0, 0, 0, 0, 65535, 65535>>)
\* 64:ff9b:0:0:0:1::  (the first address above the prefix)
IP_Above == V6(<<100, 65435, 0, 0, 0, 1, 0, 0>>)
\* 64:ff9a::
IP_Below == V6(<<100, 65434, 0, 0, 0, 0, 0, 0>>)
\* 64:ff9a:ffff:ffff:ffff:ffff:ffff:ffff  (the last address below the prefix)
IP_BelowLast == V6(<<100, 65434, 65535, 65535, 65535, 65535, 65535, 65535>>)
\* 64:ff9b:8000::  (differs from the prefix in bit 33)
IP_Bit33 == V6(<<100, 65435, 32768, 0, 0, 0, 0, 0>>)
\* 2001:db8::1
IP_Native == V6(<<8193, 3512, 0, 0, 0, 0, 0, 1>>)
\* ::ffff:192.0.2.1  (IPv4-mapped)
IP_Mapped == V6(<<0, 0, 0, 0, 0, 65535, 49152, 513>>)
\* 192.0.2.1 as a 4-byte address (the answer of an A record)
IP_V4 == <<192, 0, 2, 1>>

\* the hosts of the IPv6 header
IP_Client == V6(<<8193, 3512, 0, 0, 0, 0, 0, 16>>)
IP_Resolver == V6(<<8193, 3512, 0, 0, 0, 0, 0, 83>>)

(***************************************************************************)
(* The packets the capture source may deliver.                             *)
(***************************************************************************)
Question(name, type) == [Name |-> name, Type |-> type]
Answer(ip) == [IP |-> ip]
Ports(s, d) == [SrcPort |-> s, DstPort |-> d]
IP6Layer == [SrcIP |-> IP_Client, DstIP |-> IP_Resolver]

TransportLayers(ports, withTCP) ==
    {[udp |-> Nil, tcp |-> Nil]}
    \cup {[udp |-> Ports(s, d), tcp |-> Nil] : s \in ports, d \in ports}
    \cup (IF withTCP
          THEN {[udp |-> Nil, tcp |-> Ports(s, d)] : s \in ports, d \in ports}
          ELSE {})

DNSLayers(questions, answers) ==
    {Nil} \cup {[Questions |-> qs, Answers |-> as] : qs \in questions, as \in answers}

PacketsOver(transports, dnsLayers) ==
    {[err |-> e, ip6 |-> n, udp |-> t.udp, tcp |-> t.tcp, dns |-> d] :
        e \in BOOLEAN, n \in {Nil, IP6Layer}, t \in transports, d \in dnsLayers}

AnswerIPs ==
    {NilIP, IP_NAT64_Low, IP_NAT64_Synth, IP_NAT64_High, IP_Above, IP_Below,
     IP_BelowLast, IP_Bit33, IP_Native, IP_Mapped, IP_V4}

\* the packets of the per-frame specification
AllPackets ==
    PacketsOver(
        TransportLayers({DNSPort, 40000}, TRUE),
        DNSLayers(
            {<<>>,
             <<Question("example.com.", "A")>>,
             <<Question("example.com.", "AAAA")>>,
             <<Question("example.com.", "A"), Question("example.org.", "AAAA")>>,
             <<Question("example.com.", "AAAA"), Question("example.org.", "A")>>},
            {<<>>}
            \cup {<<Answer(ip)>> : ip \in AnswerIPs}
            \cup {<<Answer(IP_Native), Answer(IP_NAT64_Synth)>>,
                  <<Answer(IP_NAT64_Synth), Answer(IP_Native)>>,
                  <<Answer(NilIP), Answer(IP_Native)>>}))

\* the packets of the pipeline specification
Packets ==
    PacketsOver(
        TransportLayers({DNSPort, 40000}, FALSE),
        DNSLayers(
            {<<>>, <<Question("example.com.", "AAAA")>>},
            {<<>>, <<Answer(IP_Native)>>}))

(***************************************************************************)
(* net.IPNet.Contains on the result of net.ParseCIDR, as the standard      *)
(* library computes it: byte-wise comparison under the mask.               *)
(***************************************************************************)
RECURSIVE BitAnd(_, _)
BitAnd(a, b) ==
    IF a = 0 \/ b = 0
    THEN 0
    ELSE (a % 2) * (b % 2) + 2 * BitAnd(a \div 2, b \div 2)

RECURSIVE Pow2(_)
Pow2(n) == IF n = 0 THEN 1 ELSE 2 * Pow2(n - 1)

\* net.CIDRMask(ones, 8 * IPv6len)
CIDRMask(ones) ==
    [k \in 1..IPv6len |->
        LET n == ones - 8 * (k - 1)
        IN  IF n >= 8 THEN 255 ELSE IF n <= 0 THEN 0 ELSE 256 - Pow2(8 - n)]

\* net.IP.Mask for an address and a mask of the same length
MaskIP(ip, mask) == [k \in 1..Len(ip) |-> BitAnd(ip[k], mask[k])]

\* net.IP.To4: the 4-byte form of an IPv4 or IPv4-mapped address, else nil
To4(ip) ==
    IF Len(ip) = IPv4len THEN ip
    ELSE IF /\ Len(ip) = IPv6len
            /\ \A k \in 1..10 : ip[k] = 0
            /\ ip[11] = 255
            /\ ip[12] = 255
         THEN SubSeq(ip, 13, 16)
         ELSE NilIP

\* net.ParseCIDR("64:ff9b::/96"): the network number and its mask
ParseCIDR(ip, ones) ==
    [IP |-> MaskIP(ip, CIDRMask(ones)), Mask |-> CIDRMask(ones)]

nat64_prefix_wrong_length == ParseCIDR(IP_NAT64_Low, 64)

nat64_prefix == ParseCIDR(IP_NAT64_Low, NAT64Ones)

Contains(net, ip) ==
    LET x == IF To4(ip) # NilIP THEN To4(ip) ELSE ip
    IN  /\ Len(x) = Len(net.IP)
        /\ \A k \in 1..Len(x) :
              BitAnd(net.IP[k], net.Mask[k]) = BitAnd(x[k], net.Mask[k])


(***************************************************************************)
(* The records derived from one packet.                                    *)
(***************************************************************************)
\* newInterceptorLogCommon: the endpoint metadata, or nil
newInterceptorLogCommon(packet, t) ==
    LET c0 == [Timestamp |-> t, SrcIP |-> NilIP, DstIP |-> NilIP,
               SrcPort |-> 0, DstPort |-> 0, TransTCP |-> FALSE]
        c1 == [c0 EXCEPT !.SrcIP = packet.ip6.SrcIP, !.DstIP = packet.ip6.DstIP]
        c2 == IF packet.udp # Nil
              THEN [c1 EXCEPT !.SrcPort = packet.udp.SrcPort % UInt16,
                              !.DstPort = packet.udp.DstPort % UInt16]
              ELSE c1
        c3 == IF packet.tcp # Nil
              THEN [c2 EXCEPT !.SrcPort = packet.tcp.SrcPort % UInt16,
                              !.DstPort = packet.tcp.DstPort % UInt16,
                              !.TransTCP = TRUE]
              ELSE c2
    IN  IF packet.err THEN Nil
        ELSE IF packet.ip6 = Nil THEN Nil
        ELSE c3

\* newQueryLog, for c # nil: the query view, or nil
newQueryLog(packet, c) ==
    IF packet.dns # Nil /\ Len(packet.dns.Questions) > 0
    THEN [Timestamp |-> c.Timestamp, SrcIP |-> c.SrcIP, DstIP |-> c.DstIP,
          SrcPort |-> c.SrcPort, DstPort |-> c.DstPort, TransTCP |-> c.TransTCP,
          QString |-> packet.dns.Questions[1].Name,
          QType |-> packet.dns.Questions[1].Type,
          hasAnswer |-> Len(packet.dns.Answers) > 0]
    ELSE Nil

\* a ResponseLog: the QueryLog q extended with the answer
ResponseLog(q, ansIP, ipv6Ready, hasAnswer) ==
    [Timestamp |-> q.Timestamp, SrcIP |-> q.SrcIP, DstIP |-> q.DstIP,
     SrcPort |-> q.SrcPort, DstPort |-> q.DstPort, TransTCP |-> q.TransTCP,
     QString |-> q.QString, QType |-> q.QType, hasAnswer |-> hasAnswer,
     AnsIP |-> ansIP, IPv6Ready |-> ipv6Ready]

\* newResponseLog ending in "return r": the zero-valued extension of q
newResponseLog_returns_r(packet, q) ==
    IF q = Nil THEN Nil
    ELSE IF packet.dns # Nil /\ Len(packet.dns.Answers) > 0
    THEN ResponseLog(q, packet.dns.Answers[1].IP,
                     ~Contains(nat64_prefix, packet.dns.Answers[1].IP),
                     packet.dns.Answers[1].IP # NilIP)
    ELSE ResponseLog(q, NilIP, FALSE, q.hasAnswer)

\* newResponseLog without "r.hasAnswer = answer.IP != nil"
newResponseLog_inherited_flag(packet, q) ==
    IF q = Nil THEN Nil
    ELSE IF packet.dns # Nil /\ Len(packet.dns.Answers) > 0
    THEN ResponseLog(q, packet.dns.Answers[1].IP,
                     ~Contains(nat64_prefix, packet.dns.Answers[1].IP),
                     q.hasAnswer)
    ELSE Nil

\* newResponseLog: the response view, or nil
newResponseLog(packet, q) ==
    IF q = Nil THEN Nil
    ELSE IF packet.dns # Nil /\ Len(packet.dns.Answers) > 0
    THEN ResponseLog(q, packet.dns.Answers[1].IP,
                     ~Contains(nat64_prefix, packet.dns.Answers[1].IP),
                     packet.dns.Answers[1].IP # NilIP)
    ELSE Nil

(***************************************************************************)
(* The emission decision of the capture loop.                              *)
(***************************************************************************)
is_valid_query_port_only(c, q) == c.DstPort = DNSPort

is_valid_query(c, q) == c.DstPort = DNSPort /\ q # Nil

is_valid_response(c, r) == c.SrcPort = DNSPort /\ r # Nil

has_aaaa_answer(c, r) ==
    is_valid_response(c, r) /\ r.QType = "AAAA" /\ r.hasAnswer

\* the switch with the query view taking precedence
selectLog_query_first(flag, c, q, r) ==
    IF ~is_valid_query(c, q) /\ ~has_aaaa_answer(c, r) THEN "continue"
    ELSE IF flag /\ has_aaaa_answer(c, r) /\ ~is_valid_query(c, q) THEN "r"
    ELSE "q"

\* the switch: "continue", or which of q and r becomes log
selectLog(flag, c, q, r) ==
    IF ~is_valid_query(c, q) /\ ~has_aaaa_answer(c, r) THEN "continue"
    ELSE IF flag /\ has_aaaa_answer(c, r) THEN "r"
    ELSE "q"

(***************************************************************************)
(* The exporters main registers, in order.                                 *)
(***************************************************************************)
exportersOf_db_first(quiet, use_psql) ==
    (IF use_psql THEN <<"db">> ELSE <<>>) \o (IF ~quiet THEN <<"std">> ELSE <<>>)

exportersOf(quiet, use_psql) ==
    (IF ~quiet THEN <<"std">> ELSE <<>>) \o (IF use_psql THEN <<"db">> ELSE <<>>)

\* errCounter > 5
fatal_at_threshold(n) == n >= MaxErrors

fatal(n) == n > MaxErrors

\* the counter after a successful INSERT
counterAfterSuccess_kept(n) == n

counterAfterSuccess(n) == 0

\* the loop variable of "for _, exporter := range exporters" after one call
nextExporter_same(k) == k

nextExporter(k) == k + 1

(***************************************************************************)
(* State.                                                                  *)
(***************************************************************************)
VARIABLES
    sniffFlag,   \* --with-response
    exporters,   \* the exporters main registered: a sequence of "std", "db"
    errCounter,  \* consecutive failed INSERTs
    pc,          \* "range", "switch", "export", "exit" (os.Exit(1)), "panic"
    now,         \* the clock: one tick per packet pulled
    packet,      \* the packet of this iteration
    c,           \* its InterceptorLogCommon, or nil
    q,           \* its QueryLog, or nil
    r,           \* its ResponseLog, or nil
    log,         \* the record handed to the exporters
    i,           \* the position in exporters
    stdout,      \* the Timestamps of the records printed, in order
    inserts      \* the INSERTs issued, in order: Timestamp and outcome

vars == <<sniffFlag, exporters, errCounter, pc, now, packet, c, q, r, log, i,
          stdout, inserts>>

Init ==
    /\ sniffFlag \in BOOLEAN
    /\ \E quiet \in BOOLEAN, use_psql \in BOOLEAN :
          exporters = exportersOf(quiet, use_psql)
    /\ errCounter = 0
    /\ pc = "range"
    /\ now = 0
    /\ packet = Nil
    /\ c = Nil
    /\ q = Nil
    /\ r = Nil
    /\ log = Nil
    /\ i = 0
    /\ stdout = <<>>
    /\ inserts = <<>>

(***************************************************************************)
(* interceptor, lines 237-240: the next packet and its records.  With c    *)
(* nil, newQueryLog dereferences it (q.InterceptorLogCommon = *c): the     *)
(* goroutine panics and the process ends.                                  *)
(***************************************************************************)
ReceivePacket(p) ==
    /\ pc = "range"
    /\ now' = now + 1
    /\ packet' = p
    /\ c' = newInterceptorLogCommon(p, now + 1)
    /\ IF c' = Nil
       THEN /\ pc' = "panic"
            /\ q' = Nil
            /\ r' = Nil
       ELSE /\ pc' = "switch"
            /\ q' = newQueryLog(p, c')
            /\ r' = newResponseLog(p, q')
    /\ UNCHANGED <<sniffFlag, exporters, errCounter, log, i, stdout, inserts>>

(***************************************************************************)
(* interceptor, lines 242-252: drop the packet or choose the record.       *)
(***************************************************************************)
Switch ==
    /\ pc = "switch"
    /\ LET choice == selectLog(sniffFlag, c, q, r)
       IN  IF choice = "continue"
           THEN /\ pc' = "range"
                /\ packet' = Nil
                /\ c' = Nil
                /\ q' = Nil
                /\ r' = Nil
                /\ log' = Nil
                /\ i' = 0
           ELSE /\ pc' = "export"
                /\ log' = (IF choice = "r" THEN r ELSE q)
                /\ i' = 1
                /\ UNCHANGED <<packet, c, q, r>>
    /\ UNCHANGED <<sniffFlag, exporters, errCounter, now, stdout, inserts>>

(***************************************************************************)
(* stdExporter, called at line 255: prints the record unless it is nil.    *)
(***************************************************************************)
stdExporter ==
    /\ pc = "export"
    /\ i <= Len(exporters)
    /\ exporters[i] = "std"
    /\ stdout' = (IF log # Nil THEN Append(stdout, log.Timestamp) ELSE stdout)
    /\ i' = nextExporter(i)
    /\ UNCHANGED <<sniffFlag, exporters, errCounter, pc, now, packet, c, q, r,
                   log, inserts>>

(***************************************************************************)
(* The exporter of newDBExporter, called at line 255: one INSERT, which    *)
(* succeeds (ok) or fails.                                                 *)
(***************************************************************************)
dbExporter(ok) ==
    /\ pc = "export"
    /\ i <= Len(exporters)
    /\ exporters[i] = "db"
    /\ inserts' = Append(inserts, [Timestamp |-> (IF log # Nil THEN log.Timestamp ELSE 0),
                                   ok |-> ok])
    /\ IF ok
       THEN /\ errCounter' = counterAfterSuccess(errCounter)
            /\ pc' = pc
       ELSE /\ errCounter' = (errCounter + 1) % UInt16
            /\ pc' = (IF fatal(errCounter') THEN "exit" ELSE pc)
    /\ i' = (IF pc' = "exit" THEN i ELSE nextExporter(i))
    /\ UNCHANGED <<sniffFlag, exporters, now, packet, c, q, r, log, stdout>>

(***************************************************************************)
(* interceptor, lines 254-257: every exporter was called; the iteration    *)
(* ends and its locals go out of scope.                                    *)
(***************************************************************************)
EndOfExport ==
    /\ pc = "export"
    /\ i > Len(exporters)
    /\ pc' = "range"
    /\ packet' = Nil
    /\ c' = Nil
    /\ q' = Nil
    /\ r' = Nil
    /\ log' = Nil
    /\ i' = 0
    /\ UNCHANGED <<sniffFlag, exporters, errCounter, now, stdout, inserts>>

Next ==
    \/ \E p \in Packets : now < MaxPackets /\ ReceivePacket(p)
    \/ Switch
    \/ stdExporter
    \/ \E ok \in BOOLEAN : dbExporter(ok)
    \/ EndOfExport

Spec == Init /\ [][Next]_vars

NextFrames ==
    \/ \E p \in AllPackets : now < MaxFrames /\ ReceivePacket(p)
    \/ Switch
    \/ stdExporter
    \/ \E ok \in BOOLEAN : dbExporter(ok)
    \/ EndOfExport

SpecFrames == Init /\ [][NextFrames]_vars

(***************************************************************************)
(* Vocabulary of the properties.                                           *)
(***************************************************************************)
Last(s) == s[Len(s)]

\* the number of failed INSERTs since the last successful one (or the start)
TrailingFailures(s) ==
    LET oks == {k \in 1..Len(s) : s[k].ok}
    IN  IF oks = {} THEN Len(s)
        ELSE Len(s) - (CHOOSE k \in oks : \A m \in oks : m <= k)

\* the Timestamps of the records a sink was called with, in order
Consumed(sink, out, ins) ==
    IF sink = "std" THEN out ELSE [k \in 1..Len(ins) |-> ins[k].Timestamp]

StrictlyIncreasing(s) == \A k \in 1..(Len(s) - 1) : s[k] < s[k + 1]

IsPrefix(s, t) == Len(s) <= Len(t) /\ \A k \in 1..Len(s) : s[k] = t[k]

Running == pc \in {"range", "switch", "export"}

\* this step is a call of the durable sink
DBStep ==
    /\ pc = "export"
    /\ i <= Len(exporters)
    /\ exporters[i] = "db"
    /\ inserts' # inserts

IsResponseLog(x) == x # Nil /\ "AnsIP" \in DOMAIN x

\* the address lies in 64:ff9b::/96: an IPv6 address whose first 96 bits are
\* 0064:ff9b:0000:0000:0000:0000
InsideNAT64(ip) ==
    /\ Len(ip) = 16
    /\ SubSeq(ip, 1, 12) = <<0, 100, 255, 155, 0, 0, 0, 0, 0, 0, 0, 0>>

\* AddressExtractor rejects the packet: a decode error or no IPv6 layer
Rejected(p) == p.err \/ p.ip6 = Nil

(***************************************************************************)
(* C1.  The process exits exactly at the 6th consecutive failed INSERT:    *)
(* it has exited iff the INSERTs issued end in 6 failures; a call of the   *)
(* durable sink that leaves 1 to 5 consecutive failures leaves the process *)
(* in the fan-out, and a successful one (also after 5 failures) sets the   *)
(* counter to 0 and does not exit.                                         *)
(***************************************************************************)
C1_FatalThreshold ==
    /\ [](pc = "exit" <=> TrailingFailures(inserts) = 6)
    /\ [][DBStep =>
            LET f == TrailingFailures(inserts')
            IN  /\ f <= 6
                /\ (f = 6) <=> (pc' = "exit")
                /\ (f \in 1..5) => (pc' = "export")
                /\ Last(inserts').ok => (errCounter' = 0 /\ pc' = "export")]_vars

C1_Witness ==
    /\ pc = "exit"
    /\ Len(inserts) = 6
    /\ \A k \in 1..6 : ~inserts[k].ok

(***************************************************************************)
(* C2.  Whenever the fan-out of a record ends (the loop is through, or the *)
(* durable sink ended the process), every registered sink was called with  *)
(* that record; and whenever an INSERT fails, the console sink, if         *)
(* registered, has printed that record.                                    *)
(***************************************************************************)
C2_FailingSinkDoesNotStopFanOut ==
    /\ [][(pc = "export" /\ pc' # "export") =>
            \A k \in 1..Len(exporters) :
                LET h == Consumed(exporters[k], stdout', inserts')
                IN  h # <<>> /\ Last(h) = log.Timestamp]_vars
    /\ [][(DBStep /\ ~Last(inserts').ok /\ \E k \in 1..Len(exporters) : exporters[k] = "std") =>
            (stdout' # <<>> /\ Last(stdout') = log.Timestamp)]_vars

C2_Witness ==
    /\ pc = "exit"
    /\ exporters = <<"std", "db">>
    /\ Last(stdout) = log.Timestamp
    /\ Last(inserts) = [Timestamp |-> log.Timestamp, ok |-> FALSE]

(***************************************************************************)
(* C3.  The outcome of the switch is the rule table: the packet is dropped *)
(* iff neither isValidQuery nor hasAAAAAnswer holds; otherwise r is        *)
(* emitted iff the toggle is set and hasAAAAAnswer holds; otherwise q.     *)
(***************************************************************************)
C3_EmissionRuleTable ==
    [][pc = "switch" =>
        LET isValidQuery == c.DstPort = 53 /\ q # Nil
            hasAAAAAnswer == c.SrcPort = 53 /\ r # Nil /\ q.QType = "AAAA" /\ r.hasAnswer
        IN  /\ (pc' = "range" /\ log' = Nil) <=> (~isValidQuery /\ ~hasAAAAAnswer)
            /\ (pc' = "export" /\ log' = r /\ IsResponseLog(log'))
                  <=> (sniffFlag /\ hasAAAAAnswer)
            /\ (pc' = "export" /\ log' = q /\ ~IsResponseLog(log') /\ q # Nil)
                  <=> ((isValidQuery \/ hasAAAAAnswer) /\ ~(sniffFlag /\ hasAAAAAnswer))]_vars

\* a valid query that carries a qualifying AAAA answer, emitted as r
C3_Witness ==
    /\ pc = "export"
    /\ sniffFlag
    /\ c.DstPort = 53
    /\ c.SrcPort = 53
    /\ q.QType = "AAAA"
    /\ r # Nil
    /\ r.hasAnswer
    /\ log = r

(***************************************************************************)
(* C4.  A packet the AddressExtractor rejects is dropped: the loop goes on *)
(* to the next packet and nothing is exported for it.                      *)
(***************************************************************************)
C4_RejectedFrameIsDropped ==
    [][(pc = "range" /\ now' # now /\ Rejected(packet')) =>
        (pc' = "range" /\ stdout' = stdout /\ inserts' = inserts)]_vars

(***************************************************************************)
(* C5.  The IPv6Ready flag of every ResponseLog is false iff its answer    *)
(* address lies in 64:ff9b::/96; 64:ff9b::0.0.0.0 is not ready, 64:ff9a::  *)
(* is.                                                                     *)
(***************************************************************************)
C5_IPv6Readiness ==
    r # Nil =>
        /\ r.IPv6Ready <=> ~InsideNAT64(r.AnsIP)
        /\ r.AnsIP = IP_NAT64_Low => ~r.IPv6Ready
        /\ r.AnsIP = IP_Below => r.IPv6Ready

C5_Witness ==
    /\ r # Nil
    /\ r.AnsIP = IP_NAT64_Low
    /\ ~r.IPv6Ready

(***************************************************************************)
(* C6.  No response view from nothing: r is nil whenever q is nil (no DNS  *)
(* layer or no question) and whenever the message has no answer.           *)
(***************************************************************************)
C6_NoResponseFromNothing ==
    pc \in {"switch", "export", "exit"} =>
        /\ (packet.dns = Nil \/ Len(packet.dns.Questions) = 0) => (q = Nil /\ r = Nil)
        /\ q = Nil => r = Nil
        /\ (packet.dns = Nil \/ Len(packet.dns.Answers) = 0) => r = Nil
        /\ r # Nil => (q # Nil /\ Len(packet.dns.Answers) >= 1)

\* a message with answers and no question
C6_Witness ==
    /\ pc = "switch"
    /\ packet.dns # Nil
    /\ Len(packet.dns.Questions) = 0
    /\ Len(packet.dns.Answers) > 0
    /\ q = Nil
    /\ r = Nil

(***************************************************************************)
(* C7.  Records are exported in the order of their packets, to the sinks   *)
(* in registration order, each to each sink once, and the fan-out of one   *)
(* record is complete before the next packet is pulled.                    *)
(***************************************************************************)
C7_OrderedExport ==
    /\ \A k \in 1..Len(exporters) :
          LET h == Consumed(exporters[k], stdout, inserts)
          IN  /\ StrictlyIncreasing(h)
              /\ \A m \in 1..Len(h) : h[m] \in 1..now
              /\ pc \in {"range", "switch", "panic"} =>
                    \A m \in 1..Len(h) : h[m] < now \/ pc = "range"
              /\ pc \in {"export", "exit"} =>
                    /\ log # Nil
                    /\ log.Timestamp = now
                    /\ IF k < i \/ (pc = "exit" /\ k = i)
                       THEN h # <<>> /\ Last(h) = now
                       ELSE \A m \in 1..Len(h) : h[m] < now
    /\ \A k \in 1..(Len(exporters) - 1) :
          LET h1 == Consumed(exporters[k], stdout, inserts)
              h2 == Consumed(exporters[k + 1], stdout, inserts)
          IN  /\ IsPrefix(h2, h1)
              /\ Len(h1) <= Len(h2) + 1
              /\ pc \in {"range", "switch", "panic"} => h1 = h2
    /\ (\A k \in 1..Len(exporters) : exporters[k] # "std") => stdout = <<>>
    /\ (\A k \in 1..Len(exporters) : exporters[k] # "db") => inserts = <<>>

\* the console sink has the third record, the durable sink not yet; an earlier
\* packet was dropped
C7_Witness ==
    /\ exporters = <<"std", "db">>
    /\ pc = "export"
    /\ i = 2
    /\ Len(stdout) = 3
    /\ Len(inserts) = 2
    /\ now > 3

(***************************************************************************)
(* C8.  Only a call of the durable sink changes errCounter, and while the  *)
(* process runs errCounter is the number of failed INSERTs since the last  *)
(* successful one and lies in 0..5.                                        *)
(***************************************************************************)
C8_CounterOwnedByDurableSink ==
    /\ [][errCounter' # errCounter => DBStep]_vars
    /\ [](Running => (errCounter = TrailingFailures(inserts) /\ errCounter \in 0..5))

\* five failures, then a success: the counter is back to 0
C8_Witness ==
    /\ Running
    /\ Len(inserts) = 6
    /\ \A k \in 1..5 : ~inserts[k].ok
    /\ inserts[6].ok
    /\ errCounter = 0
    /\ Len(stdout) = 6

(***************************************************************************)
(* C9.  The has-answer flag of a ResponseLog says whether the first answer *)
(* has an address, whatever the flag of the QueryLog.  A packet whose      *)
(* first answer has no address has q.hasAnswer and not r.hasAnswer; it is  *)
(* never emitted as r: it is emitted as q if its destination port is 53    *)
(* and dropped otherwise.                                                  *)
(***************************************************************************)
C9_HasAnswerRederived ==
    /\ [](r # Nil => (q.hasAnswer /\ (r.hasAnswer <=> r.AnsIP # NilIP)))
    /\ [][(pc = "switch" /\ r # Nil /\ r.AnsIP = NilIP) =>
            /\ q.hasAnswer
            /\ ~r.hasAnswer
            /\ c.DstPort = 53 => (pc' = "export" /\ log' = q /\ ~IsResponseLog(log'))
            /\ c.DstPort # 53 => (pc' = "range" /\ log' = Nil)]_vars

C9_Witness ==
    /\ pc = "export"
    /\ sniffFlag
    /\ c.SrcPort = 53
    /\ q.QType = "AAAA"
    /\ r # Nil
    /\ r.AnsIP = NilIP
    /\ q.hasAnswer
    /\ ~r.hasAnswer
    /\ log = q

(***************************************************************************)
(* C10.  The record handed to the exporters is never nil: it is q with q   *)
(* derived, or r with r derived.                                           *)
(***************************************************************************)
C10_ExportedRecordNotNil ==
    pc \in {"export", "exit"} =>
        /\ log # Nil
        /\ \/ (log = q /\ q # Nil /\ ~IsResponseLog(log))
           \/ (log = r /\ r # Nil /\ IsResponseLog(log))

\* not a valid query, a qualifying AAAA answer, the toggle off: q is exported
C10_Witness ==
    /\ pc = "export"
    /\ ~sniffFlag
    /\ c.DstPort # 53
    /\ c.SrcPort = 53
    /\ r # Nil
    /\ r.hasAnswer
    /\ r.QType = "AAAA"
    /\ log = q
    /\ q # Nil

============================================================================
